---- MODULE Spec2Model ----
(***************************************************************************)
(* Model of the PDF outline extractor (Challenge_1a/process_pdfs.py):      *)
(* the CorrectedOutlineExtractor instance that process_all_pdfs shares     *)
(* between the documents of a batch, and the batch loop itself.            *)
(*                                                                         *)
(* A character is its Unicode code point and a text is a sequence of code  *)
(* points.  Font sizes are integers in tenths of a point (12.0 -> 120),    *)
(* which is what round(avg_size, 1) keeps.  The character repertoire of    *)
(* the model is printable ASCII, newline, and the scripts and symbols the  *)
(* source names by range or literal (kana, CJK ideographs, Hangul, the     *)
(* Arabic block, full-width digits and period, the list bullets), less the *)
(* few characters of these ranges that NFKC expands to several characters. *)
(***************************************************************************)
EXTENDS Integers, Sequences, FiniteSets, TLC

VARIABLES
    pdf_files,            \* process_all_pdfs: the batch, a sequence of files
    idx,                  \* process_all_pdfs: index of the file being processed
    pc,                   \* position inside process_all_pdfs / extract_outline
    font_stats,           \* self.font_stats, as <<size, count>> pairs in insertion order
    text_blocks,          \* self.text_blocks
    extracted_title,      \* self.extracted_title
    detected_language,    \* self.detected_language
    font_size_hierarchy,  \* self.font_size_hierarchy, as <<size, level>> pairs in insertion order
    result,               \* the value extract_outline returned for the current file
    outputs,              \* per file, the content of its output file, in order of writing
    headings,             \* argument of a call of enforce_corrected_hierarchy on its own
    final_outline         \* what that call returned

vars == <<pdf_files, idx, pc, font_stats, text_blocks, extracted_title,
          detected_language, font_size_hierarchy, result, outputs,
          headings, final_outline>>

----------------------------------------------------------------------------
(* Texts *)

\* printable ASCII, in code-point order from 35 ('#') to 126 ('~'), without the
\* backslash (92) and the backquote (96)
AsciiLow == "#$%&'()*+,-./0123456789:;<=>?@ABCDEFGHIJKLMNOPQRSTUVWXYZ["
AsciiHigh == "abcdefghijklmnopqrstuvwxyz{|}~"

\* ord() of a one-character string
Ord(ch) ==
    CASE ch = "\n" -> 10
      [] ch = " " -> 32
      [] ch = "!" -> 33
      [] ch = "]" -> 93
      [] ch = "^" -> 94
      [] ch = "_" -> 95
      [] \E i \in 1..Len(AsciiLow) : SubSeq(AsciiLow, i, i) = ch ->
            34 + (CHOOSE i \in 1..Len(AsciiLow) : SubSeq(AsciiLow, i, i) = ch)
      [] OTHER ->
            96 + (CHOOSE i \in 1..Len(AsciiHigh) : SubSeq(AsciiHigh, i, i) = ch)

\* a Python str literal as a text
Str(s) == [i \in 1..Len(s) |-> Ord(SubSeq(s, i, i))]

\* Python's None: a value that is no text
None == <<-1>>

At(t, i) == IF i \in 1..Len(t) THEN t[i] ELSE -1

\* [0-9]
AsciiDigits == 48..57
\* \d of a str pattern: any Unicode decimal digit
Digits == (48..57) \cup (1632..1641) \cup (1776..1785) \cup (65296..65305)
IsDigit(c) == c \in Digits
IsUpperAZ(c) == c \in 65..90
IsLowerAZ(c) == c \in 97..122
\* str.isspace(), \s
Spaces == (9..13) \cup (28..32) \cup {133, 160, 12288}
IsSpace(c) == c \in Spaces
\* the characters with str.isalpha(), on the model's repertoire
Alpha ==
    (65..90) \cup (97..122)
    \cup (12353..12438) \cup (12445..12447)        \* Hiragana letters
    \cup (12449..12538) \cup (12540..12543)        \* Katakana letters
    \cup (19968..40879)                            \* CJK ideographs
    \cup (44032..55203)                            \* Hangul syllables
    \cup (1568..1610) \cup (1646..1647) \cup (1649..1747)   \* Arabic letters
    \cup {1749, 1765, 1766, 1774, 1775, 1786, 1787, 1788, 1791}

LowerCh(c) == IF IsUpperAZ(c) THEN c + 32 ELSE c
\* str.lower()
Lower(t) == [i \in 1..Len(t) |-> LowerCh(t[i])]
\* str.isupper(): some cased character, none of them lower case
IsUpperStr(t) ==
    /\ \E i \in 1..Len(t) : IsUpperAZ(t[i])
    /\ \A i \in 1..Len(t) : ~IsLowerAZ(t[i])
\* str.islower()
IsLowerStr(t) ==
    /\ \E i \in 1..Len(t) : IsLowerAZ(t[i])
    /\ \A i \in 1..Len(t) : ~IsUpperAZ(t[i])

\* str.strip()
Strip(t) ==
    IF \A i \in 1..Len(t) : IsSpace(t[i]) THEN <<>>
    ELSE LET a == CHOOSE i \in 1..Len(t) :
                      ~IsSpace(t[i]) /\ \A j \in 1..(i - 1) : IsSpace(t[j])
             b == CHOOSE i \in 1..Len(t) :
                      ~IsSpace(t[i]) /\ \A j \in (i + 1)..Len(t) : IsSpace(t[j])
         IN  SubSeq(t, a, b)

StartsWith(t, p) == Len(p) <= Len(t) /\ SubSeq(t, 1, Len(p)) = p
EndsWith(t, p) == Len(p) <= Len(t) /\ SubSeq(t, Len(t) - Len(p) + 1, Len(t)) = p
\* p in t
\* p occurs in t from position i + 1 on
OccursAt(t, p, i) == \A k \in 1..Len(p) : t[i + k] = p[k]
Contains(t, p) == \E i \in 0..(Len(t) - Len(p)) : OccursAt(t, p, i)
\* t.count(c) for a single character
CountCh(t, c) == Cardinality({i \in 1..Len(t) : t[i] = c})

\* len(t.split()): the number of maximal runs of non-space characters
WordCount(t) ==
    Cardinality({i \in 1..Len(t) : ~IsSpace(t[i]) /\ (i = 1 \/ IsSpace(t[i - 1]))})

\* re.sub(r'\s+', ' ', t): every maximal run of spaces becomes one blank
RECURSIVE CollapseSpaces(_)
CollapseSpaces(t) ==
    IF t = <<>> THEN <<>>
    ELSE IF IsSpace(Head(t))
         THEN IF Len(t) >= 2 /\ IsSpace(t[2])
              THEN CollapseSpaces(Tail(t))
              ELSE <<32>> \o CollapseSpaces(Tail(t))
         ELSE <<Head(t)>> \o CollapseSpaces(Tail(t))

\* ' '.join(ts)
RECURSIVE Join(_)
Join(ts) ==
    IF ts = <<>> THEN <<>>
    ELSE IF Len(ts) = 1 THEN ts[1]
    ELSE LET half == Len(ts) \div 2
         IN  Join(SubSeq(ts, 1, half)) \o <<32>> \o Join(SubSeq(ts, half + 1, Len(ts)))

\* first position >= i whose character is not in the class P (Len(t) + 1 if none):
\* where a greedy P* started at i stops
RunEnd(t, i, P) ==
    CHOOSE j \in i..(Len(t) + 1) :
        /\ \A k \in i..(j - 1) : t[k] \in P
        /\ j = Len(t) + 1 \/ t[j] \notin P

Dots == {46}
\* position after an optional '.' at i
OptDot(t, i) == IF At(t, i) = 46 THEN i + 1 ELSE i
Romans == {73, 86, 88, 76, 67, 68, 77}          \* [IVXLCDM]
LowerRomans == {105, 118, 120}                   \* [ivx]

\* ^\d+$ (the text is stripped, so $ is the end of the text)
AllDigits(t) == Len(t) >= 1 /\ RunEnd(t, 1, Digits) = Len(t) + 1
\* ^<word>\d : a literal prefix followed by a digit
PrefixDigit(t, p) == StartsWith(t, p) /\ IsDigit(At(t, Len(p) + 1))
\* ^\d+\.
DigitsDot(t) == LET d == RunEnd(t, 1, Digits) IN d > 1 /\ At(t, d) = 46
\* ^\d+\.\s   and   ^\d+\.\s+
DigitsDotSpace(t) ==
    LET d == RunEnd(t, 1, Digits) IN d > 1 /\ At(t, d) = 46 /\ IsSpace(At(t, d + 1))
\* where ^\d+\.\d+ ends (0 if it does not match)
NumDotNumEnd(t) ==
    LET d == RunEnd(t, 1, Digits)
    IN  IF d > 1 /\ At(t, d) = 46 /\ IsDigit(At(t, d + 1))
        THEN RunEnd(t, d + 1, Digits) ELSE 0
\* ^\d+\.\d+ with nothing required after it
NumDotNumPrefix(t) == NumDotNumEnd(t) > 0
\* ^\d+\.\d+\.?\s+
NumDotNumSpace(t) ==
    LET e == NumDotNumEnd(t) IN e > 0 /\ IsSpace(At(t, OptDot(t, e)))
\* ^\d+\.\d+\.\d+\.?\s+
NumDotNumDotNumSpace(t) ==
    LET e == NumDotNumEnd(t)
    IN  /\ e > 0 /\ At(t, e) = 46 /\ IsDigit(At(t, e + 1))
        /\ IsSpace(At(t, OptDot(t, RunEnd(t, e + 1, Digits))))
\* ^[IVXLCDM]+\.?\s+  : position after the spaces, 0 if no match
RomanMarkerEnd(t) ==
    LET r == RunEnd(t, 1, Romans)
        s == OptDot(t, r)
    IN  IF r > 1 /\ IsSpace(At(t, s)) THEN RunEnd(t, s, Spaces) ELSE 0
\* ^[A-Z]\.?\s+  : position after the spaces, 0 if no match
LetterMarkerEnd(t) ==
    LET s == OptDot(t, 2)
    IN  IF IsUpperAZ(At(t, 1)) /\ IsSpace(At(t, s)) THEN RunEnd(t, s, Spaces) ELSE 0
\* ^\d+\.?\s+  : position after the spaces, 0 if no match
NumMarkerEnd(t) ==
    LET d == RunEnd(t, 1, Digits)
        s == OptDot(t, d)
    IN  IF d > 1 /\ IsSpace(At(t, s)) THEN RunEnd(t, s, Spaces) ELSE 0
\* ^\d+\.\d+\.?\s+  : position after the spaces, 0 if no match
NumDotNumMarkerEnd(t) ==
    LET e == NumDotNumEnd(t)
        s == OptDot(t, e)
    IN  IF e > 0 /\ IsSpace(At(t, s)) THEN RunEnd(t, s, Spaces) ELSE 0

\* a.*b inside one line ('.' does not match a newline)
ContainsThenSameLine(t, a, b) ==
    \E i \in 0..(Len(t) - Len(a)) :
        /\ OccursAt(t, a, i)
        /\ \E j \in (i + Len(a))..(Len(t) - Len(b)) :
              /\ OccursAt(t, b, j)
              /\ \A k \in (i + Len(a) + 1)..j : t[k] # 10

----------------------------------------------------------------------------
(* Language detection and normalisation *)

\* detect_language: counts per script over the characters of the text
CountIn(t, P) == Cardinality({i \in 1..Len(t) : t[i] \in P})
Hiragana == 12352..12447
Katakana == 12448..12543
Ideographs == 19968..40879
Hangul == 44032..55215
Arabic == 1536..1791

\* a detector that tests the Hangul share before the kana share
HangulFirst(text) ==
    LET japanese_count == CountIn(text, Hiragana) + CountIn(text, Katakana)
        cjk_count == japanese_count + CountIn(text, Ideographs)
        korean_count == CountIn(text, Hangul)
        arabic_count == CountIn(text, Arabic)
        total_chars == CountIn(text, Alpha)
    IN  IF text = <<>> THEN "en"
        ELSE IF total_chars = 0 THEN "en"
        ELSE IF korean_count * 10 > total_chars * 2 THEN "ko"
        ELSE IF japanese_count * 10 > total_chars THEN "ja"
        ELSE IF cjk_count * 10 > total_chars * 3 THEN "zh"
        ELSE IF arabic_count * 10 > total_chars * 2 THEN "ar"
        ELSE "en"

detect_language(text) ==
    LET japanese_count == CountIn(text, Hiragana) + CountIn(text, Katakana)
        cjk_count == japanese_count + CountIn(text, Ideographs)
        korean_count == CountIn(text, Hangul)
        arabic_count == CountIn(text, Arabic)
        total_chars == CountIn(text, Alpha)
    IN  IF text = <<>> THEN "en"
        ELSE IF total_chars = 0 THEN "en"
        ELSE IF japanese_count * 10 > total_chars THEN "ja"
        ELSE IF korean_count * 10 > total_chars * 2 THEN "ko"
        ELSE IF cjk_count * 10 > total_chars * 3 THEN "zh"
        ELSE IF arabic_count * 10 > total_chars * 2 THEN "ar"
        ELSE "en"

\* unicodedata.normalize('NFKC', .) on the model's repertoire
NFKCCh(c) ==
    IF c \in 65296..65305 \/ c = 65294 THEN c - 65248
    ELSE IF c = 12288 THEN 32
    ELSE c
\* the ja translation table: full-width digits and period to ASCII
JaTranslateCh(c) == IF c \in 65296..65305 \/ c = 65294 THEN c - 65248 ELSE c

normalize_text(text, lang) ==
    IF text = <<>> THEN <<>>
    ELSE LET nfkc == [i \in 1..Len(text) |-> NFKCCh(text[i])]
             tr == IF lang = "ja" THEN [i \in 1..Len(nfkc) |-> JaTranslateCh(nfkc[i])]
                   ELSE nfkc
         IN  Strip(tr)

----------------------------------------------------------------------------
(* Ingestion output and analyze_fonts *)

\* A document is [pages, corrupt]: pages is a sequence of pages, a page a sequence
\* of text containers [text, x, y, chars], chars the container's LTChar objects
\* [size, fontname]; corrupt documents make extract_pages raise.

\* the text containers of a document in reading order, each with its page number
RECURSIVE Elements(_, _)
Elements(pages, page_num) ==
    IF pages = <<>> THEN <<>>
    ELSE [i \in 1..Len(pages[1]) |-> [page |-> page_num, el |-> pages[1][i]]]
         \o Elements(Tail(pages), page_num + 1)

\* first pass: the stripped, non-empty texts
RECURSIVE DetectionTexts(_)
DetectionTexts(els) ==
    IF els = <<>> THEN <<>>
    ELSE IF Len(els) > 1
    THEN LET half == Len(els) \div 2
         IN  DetectionTexts(SubSeq(els, 1, half)) \o DetectionTexts(SubSeq(els, half + 1, Len(els)))
    ELSE LET text == Strip(els[1].el.text)
         IN  IF text # <<>> THEN <<text>> ELSE <<>>

RECURSIVE SumSizes(_)
SumSizes(chars) == IF chars = <<>> THEN 0 ELSE chars[1].size + SumSizes(Tail(chars))

\* round(sum / len, 1), in tenths of a point; exact when the characters of a
\* container share one size, as they do in the documents of the model
AvgSize(chars) == SumSizes(chars) \div Len(chars)

\* Counter(font_names).most_common(1)[0][0]: the most frequent name, the first
\* encountered among equally frequent ones
MostCommonFont(chars) ==
    LET n(f) == Cardinality({i \in 1..Len(chars) : chars[i].fontname = f})
        first(f) == CHOOSE i \in 1..Len(chars) :
                        chars[i].fontname = f /\ \A j \in 1..(i - 1) : chars[j].fontname # f
        best == CHOOSE i \in 1..Len(chars) :
                    /\ first(chars[i].fontname) = i
                    /\ \A j \in 1..Len(chars) :
                          \/ n(chars[j].fontname) < n(chars[i].fontname)
                          \/ /\ n(chars[j].fontname) = n(chars[i].fontname)
                             /\ first(chars[j].fontname) >= i
    IN  chars[best].fontname

BoldWord == Str("bold")
IsBoldFont(chars) ==
    \E i \in 1..Len(chars) :
        chars[i].fontname # <<>> /\ Contains(Lower(chars[i].fontname), BoldWord)

\* self.font_stats[size] += 1 on a defaultdict(int): a new key goes last
IncStat(stats, size) ==
    IF \E i \in 1..Len(stats) : stats[i][1] = size
    THEN LET i == CHOOSE k \in 1..Len(stats) : stats[k][1] = size
         IN  SubSeq(stats, 1, i - 1) \o << <<size, stats[i][2] + 1>> >>
                 \o SubSeq(stats, i + 1, Len(stats))
    ELSE Append(stats, <<size, 1>>)

block_info(text, page_num, el, lang) ==
    [text |-> text,
     page |-> page_num,
     size |-> AvgSize(el.chars),
     font_name |-> MostCommonFont(el.chars),
     is_bold |-> IsBoldFont(el.chars),
     x |-> el.x,
     y |-> el.y,
     length |-> Len(text),
     word_count |-> IF lang \in {"en", "ar"} THEN WordCount(text) ELSE Len(text),
     lines |-> CountCh(text, 10) + 1,
     is_all_caps |-> IsUpperStr(text),
     has_mixed_case |-> ~IsUpperStr(text) /\ ~IsLowerStr(text)]

\* an iteration that keeps a container without font data, as a plain size-0 block
KeepFontless(st, e, lang) ==
    LET el == e.el
        text == normalize_text(Strip(el.text), lang)
        skip == Strip(el.text) = <<>> \/ text = <<>>
        plain == [el EXCEPT !.chars = <<[size |-> 0, fontname |-> <<>>]>>]
        b == block_info(text, e.page, IF el.chars = <<>> THEN plain ELSE el, lang)
    IN  IF skip THEN st
        ELSE [blocks |-> Append(st.blocks, b),
              stats |-> IncStat(st.stats, b.size)]

\* one iteration of the second pass of analyze_fonts, on the container e, from
\* the state st = [blocks, stats]
SecondPassElement(st, e, lang) ==
    LET el == e.el
        text == normalize_text(Strip(el.text), lang)
        skip == Strip(el.text) = <<>> \/ text = <<>> \/ el.chars = <<>>
        b == block_info(text, e.page, el, lang)
    IN  IF skip THEN st
        ELSE [blocks |-> Append(st.blocks, b),
              stats |-> IncStat(st.stats, b.size)]

\* second pass of analyze_fonts over the containers els. The loop over several
\* containers is the loop over the first half of them, then the loop over the
\* rest from the state the first half left.
RECURSIVE SecondPass(_, _, _)
SecondPass(els, lang, st) ==
    IF els = <<>> THEN st
    ELSE IF Len(els) = 1 THEN SecondPassElement(st, els[1], lang)
    ELSE LET half == Len(els) \div 2
         IN  CHOOSE after \in {SecondPass(SubSeq(els, half + 1, Len(els)), lang, mid) :
                                  mid \in {SecondPass(SubSeq(els, 1, half), lang, st)}} : TRUE

----------------------------------------------------------------------------
(* Font statistics *)

\* a / b >= n / d in double arithmetic, for sizes a, b in tenths of a point up to
\* 48.0: the exact comparison, except for the pairs whose quotient meets a
\* threshold of the source exactly (1.5, 1.3, 1.1, 0.9) and is rounded below it
FloatShort ==
    {
     <<3, 2>>, <<6, 4>>, <<12, 8>>, <<24, 16>>, <<33, 22>>, <<33, 30>>,
     <<48, 32>>, <<66, 44>>, <<66, 60>>, <<81, 54>>, <<81, 90>>, <<96, 64>>,
     <<111, 74>>, <<117, 90>>, <<117, 130>>, <<121, 110>>, <<132, 88>>, <<132, 120>>,
     <<147, 98>>, <<162, 108>>, <<162, 180>>, <<169, 130>>, <<177, 118>>, <<187, 170>>,
     <<189, 210>>, <<192, 128>>, <<207, 138>>, <<209, 190>>, <<222, 148>>, <<234, 180>>,
     <<234, 260>>, <<237, 158>>, <<242, 220>>, <<249, 166>>, <<264, 176>>, <<264, 240>>,
     <<279, 186>>, <<279, 310>>, <<294, 196>>, <<297, 270>>, <<309, 206>>, <<319, 290>>,
     <<324, 216>>, <<324, 360>>, <<333, 370>>, <<338, 260>>, <<339, 226>>, <<354, 236>>,
     <<363, 330>>, <<369, 246>>, <<369, 410>>, <<374, 340>>, <<378, 420>>, <<384, 256>>,
     <<399, 266>>, <<403, 310>>, <<414, 276>>, <<418, 380>>, <<423, 470>>, <<429, 286>>,
     <<429, 390>>, <<444, 296>>, <<459, 306>>, <<468, 360>>, <<473, 430>>, <<474, 316>>}
RatioGE(a, b, n, d) == a * d > n * b \/ (a * d = n * b /\ <<a, b>> \notin FloatShort)

\* a body size that takes the last of the most frequent sizes
LastMostFrequent(stats) ==
    LET i == CHOOSE k \in 1..Len(stats) :
                 /\ \A j \in 1..Len(stats) : stats[j][2] <= stats[k][2]
                 /\ \A j \in (k + 1)..Len(stats) : stats[j][2] < stats[k][2]
    IN  stats[i][1]

\* max(self.font_stats.items(), key=lambda x: x[1])[0]: the first item, in
\* insertion order, with the largest count
BodySize(stats) ==
    LET i == CHOOSE k \in 1..Len(stats) :
                 /\ \A j \in 1..Len(stats) : stats[j][2] <= stats[k][2]
                 /\ \A j \in 1..(k - 1) : stats[j][2] < stats[k][2]
    IN  stats[i][1]

\* sorted(S, reverse=True) for a set of numbers
RECURSIVE SortDesc(_)
SortDesc(S) ==
    IF S = {} THEN <<>>
    ELSE LET m == CHOOSE x \in S : \A y \in S : y <= x
         IN  <<m>> \o SortDesc(S \ {m})

\* a hierarchy that keeps every size above the body size
UntruncatedHierarchy(blocks, stats, old) ==
    IF blocks = <<>> THEN old
    ELSE LET body_size == BodySize(stats)
             heading_sizes ==
                 SortDesc({stats[i][1] : i \in {k \in 1..Len(stats) : stats[k][1] > body_size}})
         IN  [i \in 1..Len(heading_sizes) |-> <<heading_sizes[i], i>>]

\* build_font_hierarchy: the new value of self.font_size_hierarchy
build_font_hierarchy(blocks, stats, old) ==
    IF blocks = <<>> THEN old
    ELSE LET body_size == BodySize(stats)
             heading_sizes ==
                 SortDesc({stats[i][1] : i \in {k \in 1..Len(stats) : stats[k][1] > body_size}})
             n == IF Len(heading_sizes) < 3 THEN Len(heading_sizes) ELSE 3
         IN  [i \in 1..n |-> <<heading_sizes[i], i>>]

\* size in self.font_size_hierarchy
InHierarchy(hier, size) == \E i \in 1..Len(hier) : hier[i][1] = size
\* self.font_size_hierarchy[size]
HierarchyLevel(hier, size) == hier[CHOOSE i \in 1..Len(hier) : hier[i][1] = size][2]

----------------------------------------------------------------------------
(* Title extraction *)

MaxOf(S) == CHOOSE x \in S : \A y \in S : y <= x

\* document_patterns: the literal patterns, each found by substring search, and
\* the two of the form a.*b
CatalogPatterns ==
    <<Str("pathway"), Str("course offering"), Str("elective"), Str("program option"),
      Str("career path")>>
CatalogWhat == Str("what")
CatalogSay == Str("say")
CatalogAcademic == Str("academic")
CatalogOptions == Str("options")
InvitationPatterns ==
    <<Str("hope to see you"), Str("rsvp"), Str("www."), Str(".com"), Str("address:"),
      Str("party"), Str("invitation"), Str("parents or guardians")>>
FormPatterns ==
    <<Str("application form"), Str("signature"), Str("government servant"),
      Str("permanent or temporary"), Str("ltc advance")>>
FormalPatterns ==
    <<Str("overview"), Str("foundation level"), Str("revision history"),
      Str("table of contents"), Str("acknowledgements"), Str("references")>>

\* any(p in t for p in patterns)
ContainsAny(t, patterns) == \E i \in 1..Len(patterns) : Contains(t, patterns[i])
\* any(t.startswith(p) for p in patterns)
StartsWithAny(t, patterns) == \E i \in 1..Len(patterns) : StartsWith(t, patterns[i])

\* the document type: the first category one of whose patterns is found in the
\* lower-cased text of all blocks
DocumentType(all_text) ==
    IF \/ ContainsAny(all_text, CatalogPatterns)
       \/ ContainsThenSameLine(all_text, CatalogWhat, CatalogSay)
       \/ ContainsThenSameLine(all_text, CatalogAcademic, CatalogOptions)
    THEN "catalog_listing"
    ELSE IF ContainsAny(all_text, InvitationPatterns) THEN "invitation_flyer"
    ELSE IF ContainsAny(all_text, FormPatterns) THEN "form_document"
    ELSE IF ContainsAny(all_text, FormalPatterns) THEN "formal_document"
    ELSE "standard"

\* block['y'] / max_y >= n / 10 if max_y > 0, else 0 >= n / 10
PositionGE(y, max_y, n) == max_y > 0 /\ y * 10 >= n * max_y

\* invitation flyers: contact or address information, and long texts
ContactPatterns ==
    <<Str("www."), Str(".com"), Str("address:"), Str("phone:"), Str("rsvp:"),
      Str("parents or guardians")>>
FlyerSkip(text) == ContainsAny(Lower(text), ContactPatterns) \/ WordCount(text) > 12

EmotiveWords == <<Str("hope"), Str("see"), Str("there")>>
Exclamation == Str("!")
Colon == Str(":")

FlyerScore(block, max_y, max_size) ==
    LET text == Strip(block.text)
        text_lower == Lower(text)
        word_count == WordCount(text)
    IN  (IF PositionGE(block.y, max_y, 7) THEN 2 ELSE 0)
        + (IF RatioGE(block.size, max_size, 9, 10) THEN 3 ELSE 0)
        + (IF 2 <= word_count /\ word_count <= 8 THEN 2 ELSE 0)
        + (IF Contains(text, Exclamation) \/ ContainsAny(text_lower, EmotiveWords)
           THEN 1 ELSE 0)

\* formal and standard documents: obvious non-titles (re.match on the lower-cased
\* text): ^\d+$, ^\d+\.\s, the prefixes followed by a digit, the plain prefixes
NumberedPrefixes == <<Str("page "), Str("chapter "), Str("section ")>>
PlainPrefixes ==
    <<Str("copyright"), Str("version"), Str("revision history"),
      Str("table of contents"), Str("acknowledgements")>>
FormalSkip(text) ==
    LET text_lower == Lower(text)
    IN  \/ AllDigits(text_lower)
        \/ DigitsDotSpace(text_lower)
        \/ \E i \in 1..Len(NumberedPrefixes) : PrefixDigit(text_lower, NumberedPrefixes[i])
        \/ StartsWithAny(text_lower, PlainPrefixes)

DescriptiveWords ==
    <<Str("overview"), Str("introduction"), Str("guide"), Str("manual"), Str("report"),
      Str("analysis")>>

FormalScore(block, max_y, max_size) ==
    LET text == Strip(block.text)
        text_lower == Lower(text)
        word_count == WordCount(text)
    IN  (IF PositionGE(block.y, max_y, 8) THEN 3
         ELSE IF PositionGE(block.y, max_y, 6) THEN 2 ELSE 0)
        + (IF RatioGE(block.size, max_size, 95, 100) THEN 3
           ELSE IF RatioGE(block.size, max_size, 85, 100) THEN 2 ELSE 0)
        + (IF 3 <= word_count /\ word_count <= 20 THEN 2
           ELSE IF 20 < word_count /\ word_count <= 30 THEN 1 ELSE 0)
        + (IF ~DigitsDot(text) /\ ~EndsWith(text, Colon) THEN 2 ELSE 0)
        + (IF IsUpperAZ(At(text, 1)) /\ ~IsUpperStr(text) THEN 1 ELSE 0)
        + (IF ContainsAny(text_lower, DescriptiveWords) THEN 1 ELSE 0)

FormWord == Str("form")

\* what extract_title_corrected leaves behind: the value it returns (None when
\* it falls off its end), the new self.extracted_title, or a raised exception
TitledAsWritten(text) == [raised |-> FALSE, title |-> text, extracted_title |-> text]
Titled(text) == [raised |-> FALSE, title |-> text, extracted_title |-> Lower(text)]
NoTitle(ret) == [raised |-> FALSE, title |-> ret, extracted_title |-> <<>>]
TitleRaised(old) == [raised |-> TRUE, title |-> None, extracted_title |-> old]

extract_title_corrected(blocks, old) ==
    LET IsFirstPage(b) == b.page = 0
        first_page_blocks == SelectSeq(blocks, IsFirstPage)
        n == Len(first_page_blocks)
        all_text == Join([i \in 1..Len(blocks) |-> Lower(blocks[i].text)])
        document_type == DocumentType(all_text)
        max_y == MaxOf({first_page_blocks[i].y : i \in 1..n})
        max_size == MaxOf({first_page_blocks[i].size : i \in 1..n})
        text(i) == Strip(first_page_blocks[i].text)
        \* invitation flyers
        flyer_scored == {i \in 1..n : ~FlyerSkip(text(i))}
        flyer_score(i) == FlyerScore(first_page_blocks[i], max_y, max_size)
        flyer_candidates == {i \in flyer_scored : flyer_score(i) >= 4}
        flyer_best == CHOOSE i \in flyer_candidates :
                          \A j \in flyer_candidates :
                              \/ flyer_score(j) < flyer_score(i)
                              \/ flyer_score(j) = flyer_score(i) /\ j >= i
        \* forms
        form_hits == {i \in 1..n : Contains(Lower(text(i)), FormWord) /\ WordCount(text(i)) >= 3}
        form_first == CHOOSE i \in form_hits : \A j \in form_hits : j >= i
        \* formal and standard documents
        formal_scored == {i \in 1..n : ~FormalSkip(text(i))}
        formal_score(i) == FormalScore(first_page_blocks[i], max_y, max_size)
        title_candidates == {i \in formal_scored : formal_score(i) >= 6}
        Before(i, j) ==    \* i sorts before j under key (-score, -size), the sort being stable
            \/ formal_score(i) > formal_score(j)
            \/ /\ formal_score(i) = formal_score(j)
               /\ \/ first_page_blocks[i].size > first_page_blocks[j].size
                  \/ first_page_blocks[i].size = first_page_blocks[j].size /\ i <= j
        best_title == CHOOSE i \in title_candidates : \A j \in title_candidates : Before(i, j)
        other_blocks == {i \in 1..n : first_page_blocks[i] # first_page_blocks[best_title]}
    IN  IF first_page_blocks = <<>> THEN NoTitle(<<>>)
        ELSE IF document_type = "catalog_listing" THEN NoTitle(<<>>)
        ELSE IF document_type = "invitation_flyer"
        THEN IF flyer_scored # {} /\ max_size = 0 THEN TitleRaised(old)
             ELSE IF flyer_candidates # {} THEN Titled(text(flyer_best))
             ELSE NoTitle(<<>>)
        ELSE IF document_type = "form_document"
        THEN IF form_hits # {} THEN Titled(text(form_first)) ELSE NoTitle(<<>>)
        ELSE IF formal_scored # {} /\ max_size = 0 THEN TitleRaised(old)
             ELSE IF title_candidates # {} /\ other_blocks # {} THEN Titled(text(best_title))
             ELSE NoTitle(None)

----------------------------------------------------------------------------
(* Heading validation *)

\* [一二三四五六七八九十\d] and [일이삼사오육칠팔구십\d]
CjkNumerals ==
    {19968, 20108, 19977, 22235, 20116, 20845, 19971, 20843, 20061, 21313} \cup Digits
KoreanNumerals ==
    {51068, 51060, 49340, 49324, 50724, 50977, 52832, 54036, 44396, 49901} \cup Digits
ArabicIndicDigits == 1632..1641

\* ^ C+ x from position i: a non-empty run of class C followed by character x
RunThen(t, i, C, x) == LET e == RunEnd(t, i, C) IN e > i /\ At(t, e) = x
\* ^【.*】$
Bracketed(t) ==
    /\ Len(t) >= 2 /\ t[1] = 12304 /\ t[Len(t)] = 12305
    /\ \A k \in 2..(Len(t) - 1) : t[k] # 10

is_structural_heading_pattern(text, lang) ==
    LET t == normalize_text(text, lang)
    IN  IF lang = "ja"
        THEN \/ At(t, 1) = 31532 /\ RunThen(t, 2, CjkNumerals, 31456)      \* 第..章
             \/ At(t, 1) = 31532 /\ RunThen(t, 2, CjkNumerals, 31680)      \* 第..節
             \/ RunThen(t, 1, CjkNumerals, 46)
             \/ RunThen(t, 1, 65296..65305, 46)                              \* [０-９]+\.
             \/ At(t, 1) \in {9679, 9675, 9632}
             \/ Bracketed(t)
        ELSE IF lang = "zh"
        THEN \/ At(t, 1) = 31532 /\ RunThen(t, 2, CjkNumerals, 31456)      \* 第..章
             \/ At(t, 1) = 31532 /\ RunThen(t, 2, CjkNumerals, 33410)      \* 第..节
             \/ RunThen(t, 1, CjkNumerals, 46)
             \/ Bracketed(t)
        ELSE IF lang = "ko"
        THEN \/ At(t, 1) = 51228 /\ RunThen(t, 2, KoreanNumerals, 51109)   \* 제..장
             \/ At(t, 1) = 51228 /\ RunThen(t, 2, KoreanNumerals, 51208)   \* 제..절
             \/ RunThen(t, 1, KoreanNumerals, 46)
        ELSE IF lang = "ar"
        THEN \/ RunThen(t, 1, ArabicIndicDigits, 46)
             \/ RunThen(t, 1, AsciiDigits, 46)
        ELSE \/ IsUpperAZ(At(t, NumMarkerEnd(t)))
             \/ IsUpperAZ(At(t, NumDotNumMarkerEnd(t)))
             \/ IsUpperAZ(At(t, RomanMarkerEnd(t)))
             \/ IsUpperAZ(At(t, LetterMarkerEnd(t)))

\* ^\d{1,2}/\d{1,2}/\d{4}$
IsDate(t) ==
    LET a == RunEnd(t, 1, Digits)
    IN  /\ a - 1 \in {1, 2} /\ At(t, a) = 47 /\ IsDigit(At(t, a + 1))
        /\ LET b == RunEnd(t, a + 1, Digits)
           IN  /\ b - (a + 1) \in {1, 2} /\ At(t, b) = 47 /\ IsDigit(At(t, b + 1))
               /\ LET c == RunEnd(t, b + 1, Digits)
                  IN  c - (b + 1) = 4 /\ c = Len(t) + 1

\* the universal skip patterns (re.match on the lower-cased, stripped text)
SkipNumbered == <<Str("page "), Str("version ")>>
SkipPrefixes == <<Str("copyright"), Str("www."), Str("http")>>
HeadingSkip(text_lower) ==
    \/ Len(text_lower) >= 1 /\ RunEnd(text_lower, 1, Dots) = Len(text_lower) + 1
    \/ LET d == RunEnd(text_lower, 1, Digits)
       IN  d > 1 /\ OptDot(text_lower, d) = Len(text_lower) + 1
    \/ /\ IsLowerAZ(At(text_lower, 1))
       /\ (IF At(text_lower, 2) = 41 THEN 3 ELSE 2) = Len(text_lower) + 1
    \/ \E i \in 1..Len(SkipNumbered) : PrefixDigit(text_lower, SkipNumbered[i])
    \/ StartsWithAny(text_lower, SkipPrefixes)
    \/ IsDate(text_lower)
    \/ AllDigits(text_lower)
    \/ Len(text_lower) >= 1 /\ RunEnd(text_lower, 1, LowerRomans) = Len(text_lower) + 1

\* ^[A-Z][a-zA-Z\s\-\'(),]+$
IsTitleCase(text) ==
    LET Allowed == (65..90) \cup (97..122) \cup Spaces \cup {45, 39, 40, 41, 44}
    IN  /\ IsUpperAZ(At(text, 1)) /\ Len(text) >= 2
        /\ RunEnd(text, 2, Allowed) = Len(text) + 1

IsCjkLang(lang) == lang \in {"ja", "zh", "ko"}

HeadingScore(block, body_size, lang) ==
    LET text == Strip(block.text)
        word_count == IF lang \in {"en", "ar"} THEN WordCount(text) ELSE Len(text)
        Size(n) == IF body_size > 0 THEN RatioGE(block.size, body_size, n, 10)
                   ELSE 10 >= n          \* size_ratio = 1
    IN  (IF Size(15) THEN 4 ELSE IF Size(13) THEN 3 ELSE IF Size(12) THEN 2
         ELSE IF Size(11) THEN 1 ELSE 0)
        + (IF block.is_bold THEN 2 ELSE 0)
        + (IF is_structural_heading_pattern(text, lang) THEN 3 ELSE 0)
        + (IF block.is_all_caps /\ word_count >= 2 THEN 2
           ELSE IF IsTitleCase(text) /\ word_count >= 2 THEN 1
           ELSE IF EndsWith(text, Colon) /\ Len(text) > 5 THEN 1 ELSE 0)
        + (IF IsCjkLang(lang)
           THEN (IF 3 <= word_count /\ word_count <= 30 THEN 1 ELSE 0)
           ELSE (IF 2 <= word_count /\ word_count <= 15 THEN 1 ELSE 0))

\* a validator that is content with a score of 3
AcceptsScoreThree(block, body_size, title_lower, lang) ==
    LET text == Strip(block.text)
        text_lower == Lower(text)
        min_length == IF IsCjkLang(lang) THEN 2 ELSE 3
        max_length == IF IsCjkLang(lang) THEN 200 ELSE 150
    IN  /\ text_lower # title_lower
        /\ Len(text) >= min_length /\ Len(text) <= max_length
        /\ ~HeadingSkip(text_lower)
        /\ HeadingScore(block, body_size, lang) >= 3

is_valid_heading(block, body_size, title_lower, lang) ==
    LET text == Strip(block.text)
        text_lower == Lower(text)
        min_length == IF IsCjkLang(lang) THEN 2 ELSE 3
        max_length == IF IsCjkLang(lang) THEN 200 ELSE 150
    IN  /\ text_lower # title_lower
        /\ Len(text) >= min_length /\ Len(text) <= max_length
        /\ ~HeadingSkip(text_lower)
        /\ HeadingScore(block, body_size, lang) >= 4

----------------------------------------------------------------------------
(* Heading levels *)

\* the level a structural pattern gives, 0 if none matches
PatternLevel(text, lang) ==
    LET t == normalize_text(text, lang)
    IN  IF lang = "ja"
        THEN IF At(t, 1) = 31532 /\ RunThen(t, 2, CjkNumerals, 31456) THEN 1
             ELSE IF At(t, 1) = 31532 /\ RunThen(t, 2, CjkNumerals, 31680) THEN 2
             ELSE IF RunThen(t, 1, CjkNumerals, 46) THEN 3
             ELSE 0
        ELSE IF lang \in {"zh", "ko"}
        THEN IF /\ At(t, 1) = 31532
                /\ \/ RunThen(t, 2, CjkNumerals, 31456)
                   \/ RunThen(t, 2, CjkNumerals, 33410) THEN 1
             ELSE IF RunThen(t, 1, CjkNumerals, 46) THEN 2
             ELSE 0
        ELSE IF lang = "ar"
        THEN IF RunThen(t, 1, ArabicIndicDigits \cup AsciiDigits, 46) THEN 2 ELSE 0
        ELSE IF DigitsDotSpace(t) THEN 1
             ELSE IF NumDotNumSpace(t) THEN 2
             ELSE IF NumDotNumDotNumSpace(t) THEN 3
             ELSE IF RomanMarkerEnd(t) > 0 THEN 1
             ELSE IF LetterMarkerEnd(t) > 0 THEN 2
             ELSE 0

\* font_size / body_size raises ZeroDivisionError in the size-ratio fallback
LevelRaises(block, text, lang, hier, stats) ==
    /\ PatternLevel(text, lang) = 0
    /\ ~InHierarchy(hier, block.size)
    /\ BodySize(stats) = 0

determine_heading_level_corrected(block, text, lang, hier, stats) ==
    IF PatternLevel(text, lang) # 0 THEN PatternLevel(text, lang)
    ELSE IF InHierarchy(hier, block.size) THEN HierarchyLevel(hier, block.size)
    ELSE LET body_size == BodySize(stats)
         IN  IF RatioGE(block.size, body_size, 15, 10) THEN 1
             ELSE IF RatioGE(block.size, body_size, 13, 10) THEN 2
             ELSE 3

----------------------------------------------------------------------------
(* Hierarchy enforcement *)

\* Python's order on tuples of numbers of one length
KeyLess(a, b) == \E i \in 1..Len(a) : a[i] < b[i] /\ \A j \in 1..(i - 1) : a[j] = b[j]

\* list.sort(key=...) and sorted(..., key=...): stable; keys[i] is the key of seq[i]
StableSort(seq, keys) ==
    LET n == Len(seq)
        rank(i) == 1 + Cardinality({j \in 1..n :
                        \/ KeyLess(keys[j], keys[i])
                        \/ ~KeyLess(keys[i], keys[j]) /\ j < i})
    IN  [k \in 1..n |-> seq[CHOOSE i \in 1..n : rank(i) = k]]

\* level_map.get(final_level, 'H3')
LevelTag(final_level) ==
    IF final_level = 1 THEN "H1" ELSE IF final_level = 2 THEN "H2" ELSE "H3"

\* a level that is never clamped
RawLevel(current_level, base_level) == base_level

\* the variant that lets the first heading of a page be at most level 2
FirstAtMostTwo(current_level, base_level) ==
    IF current_level = 0 THEN (IF base_level < 2 THEN base_level ELSE 2)
    ELSE IF base_level <= current_level + 1 THEN base_level
    ELSE IF current_level + 1 < 3 THEN current_level + 1 ELSE 3

\* the level a heading with raw level base_level gets after current_level
FinalLevel(current_level, base_level) ==
    IF current_level = 0 THEN base_level
    ELSE IF base_level <= current_level THEN base_level
    ELSE IF base_level = current_level + 1 THEN base_level
    ELSE IF current_level + 1 < 3 THEN current_level + 1 ELSE 3

\* the loop over one page's headings
RECURSIVE EnforcePage(_, _)
EnforcePage(page_headings, current_level) ==
    IF page_headings = <<>> THEN <<>>
    ELSE LET heading == page_headings[1]
             final_level == FinalLevel(current_level, heading.level)
         IN  <<[level |-> LevelTag(final_level), text |-> heading.text, page |-> heading.page]>>
             \o EnforcePage(Tail(page_headings), final_level)

RECURSIVE EnforcePages(_, _)
EnforcePages(hs, page_nums) ==
    IF page_nums = <<>> THEN <<>>
    ELSE LET OnPage(h) == h.page = page_nums[1]
             page_headings == SelectSeq(hs, OnPage)
             position == [i \in 1..Len(page_headings) |-> <<page_headings[i].position>>]
         IN  EnforcePage(StableSort(page_headings, position), 0)
             \o EnforcePages(hs, Tail(page_nums))

\* sorted(S) for a set of numbers
RECURSIVE SortAsc(_)
SortAsc(S) ==
    IF S = {} THEN <<>>
    ELSE LET m == CHOOSE x \in S : \A y \in S : x <= y
         IN  <<m>> \o SortAsc(S \ {m})

enforce_corrected_hierarchy(hs) ==
    IF hs = <<>> THEN <<>>
    ELSE EnforcePages(hs, SortAsc({hs[i].page : i \in 1..Len(hs)}))

----------------------------------------------------------------------------
(* extract_outline *)

EmptyResult == [title |-> <<>>, outline |-> <<>>]

\* a key that keeps the case
CaseSensitiveKey(text) == text
\* text_key = text.lower()
TextKey(text) == Lower(text)

\* one iteration of the loop over the sorted blocks, from the state st =
\* [potential_headings, seen_texts, raised]: raised once
\* determine_heading_level_corrected has raised, which ends the loop
CollectHeading(st, block, body_size, title_lower, lang, hier, stats) ==
    LET text == CollapseSpaces(Strip(block.text))
        text_key == TextKey(text)
        min_length == IF IsCjkLang(lang) THEN 2 ELSE 3
        keep == /\ is_valid_heading(block, body_size, title_lower, lang)
                /\ text_key \notin st.seen_texts
                /\ Len(text) >= min_length
                /\ text_key # title_lower
        heading == [text |-> text,
                    page |-> block.page,
                    level |-> determine_heading_level_corrected(block, text, lang,
                                                                hier, stats),
                    position |-> -block.y]
    IN  IF st.raised \/ ~keep THEN st
        ELSE IF LevelRaises(block, text, lang, hier, stats)
        THEN [st EXCEPT !.raised = TRUE]
        ELSE [potential_headings |-> Append(st.potential_headings, heading),
              seen_texts |-> st.seen_texts \cup {text_key},
              raised |-> FALSE]

\* the loop over several blocks is the loop over the first half of them, then
\* the loop over the rest from the state the first half left
RECURSIVE CollectHeadings(_, _, _, _, _, _, _)
CollectHeadings(sorted_blocks, body_size, title_lower, lang, hier, stats, st) ==
    IF sorted_blocks = <<>> THEN st
    ELSE IF Len(sorted_blocks) = 1
    THEN CollectHeading(st, sorted_blocks[1], body_size, title_lower, lang, hier, stats)
    ELSE LET n == Len(sorted_blocks)
             half == n \div 2
         IN  CHOOSE after \in
                 {CollectHeadings(SubSeq(sorted_blocks, half + 1, n), body_size,
                                  title_lower, lang, hier, stats, mid) :
                      mid \in {CollectHeadings(SubSeq(sorted_blocks, 1, half), body_size,
                                               title_lower, lang, hier, stats, st)}} : TRUE

\* sorted(self.text_blocks, key=lambda b: (b['page'], -b['y']))
SortedBlocks(blocks) ==
    StableSort(blocks, [i \in 1..Len(blocks) |-> <<blocks[i].page, -blocks[i].y>>])

PotentialHeadings(blocks, stats, title_lower, lang, hier) ==
    CollectHeadings(SortedBlocks(blocks), BodySize(stats), title_lower, lang, hier, stats,
                    [potential_headings |-> <<>>, seen_texts |-> {}, raised |-> FALSE])

\* extract_outline after analyze_fonts returned, from the extractor state
\* [text_blocks, font_stats, extracted_title, detected_language,
\* font_size_hierarchy]: the value returned and the state left behind
OutlineOf(self) ==
    LET Return(hier, t, collected) ==
            LET after == [self EXCEPT !.font_size_hierarchy = hier,
                                      !.extracted_title = t.extracted_title]
            IN  IF self.text_blocks = <<>> THEN [ret |-> EmptyResult, self |-> self]
                ELSE IF t.raised \/ collected.raised THEN [ret |-> EmptyResult, self |-> after]
                ELSE [ret |-> [title |-> t.title,
                               outline |-> enforce_corrected_hierarchy(
                                               collected.potential_headings)],
                      self |-> after]
        Collect(hier, t) ==
            Return(hier, t, PotentialHeadings(self.text_blocks, self.font_stats,
                                              t.extracted_title, self.detected_language, hier))
    IN  Collect(build_font_hierarchy(self.text_blocks, self.font_stats,
                                     self.font_size_hierarchy),
                extract_title_corrected(self.text_blocks, self.extracted_title))

\* a clear() that was forgotten
Kept(collection) == collection
\* self.font_stats.clear(), self.text_blocks.clear()
Cleared(collection) == <<>>

\* analyze_fonts on a readable document: the extractor state it leaves
analyze_fonts(self, doc) ==
    LET els == Elements(doc.pages, 0)
        lang == detect_language(Join(DetectionTexts(els)))
        st == SecondPass(els, lang, [blocks |-> Cleared(self.text_blocks),
                                     stats |-> Cleared(self.font_stats)])
    IN  [self EXCEPT !.text_blocks = st.blocks, !.font_stats = st.stats,
                     !.detected_language = lang]

\* extract_outline as a whole: the value returned and the extractor state left
extract_outline(self, doc) ==
    IF doc.corrupt
    THEN [ret |-> EmptyResult,
          self |-> [self EXCEPT !.text_blocks = Cleared(self.text_blocks),
                                !.font_stats = Cleared(self.font_stats)]]
    ELSE OutlineOf(analyze_fonts(self, doc))

----------------------------------------------------------------------------
(* The documents of the model *)

Helvetica == Str("Helvetica")
HelveticaBold == Str("Helvetica-Bold")

\* a text container whose characters share one font
Box(text, x, y, size, bold, nchars) ==
    [text |-> text, x |-> x, y |-> y,
     chars |-> [i \in 1..nchars |->
                   [size |-> size, fontname |-> IF bold THEN HelveticaBold ELSE Helvetica]]]

Pdf(pages) == [pages |-> pages, corrupt |-> FALSE]
\* a file extract_pages cannot read
Corrupt(pages) == [pages |-> pages, corrupt |-> TRUE]

\* no fragment at all
EmptyDoc ==
    Pdf(<<>>)

\* extract_pages raises
CorruptDoc ==
    Corrupt(<< << Box(Str("Unreadable"), 72, 700, 120, FALSE, 1) >> >>)

\* Japanese text containers without character-level font data
NoFontDoc ==
    Pdf(<< << Box(<<31532, 49, 31456, 32, 12399, 12376, 12417, 12395>>, 72, 700, 240, TRUE, 0),
             Box(<<12371, 12428, 12399, 26412, 25991, 12391, 12377>>, 72, 600, 120, FALSE, 0) >> >>)

\* a report: a title, numbered headings, repeated headings, copies of the title
ReportDoc ==
    Pdf(<< << Box(Str("Project Status Report"), 72, 700, 240, FALSE, 2),
             Box(Str("1. Introduction"), 72, 600, 180, TRUE, 2),
             Box(Str("2. Methods"), 72, 550, 180, TRUE, 0),
             Box(Str("This is the body text of the report."), 72, 500, 120, FALSE, 2) >>,
          << Box(Str("PROJECT STATUS REPORT"), 72, 700, 180, TRUE, 1),
             Box(Str("Project  Status\nReport"), 72, 650, 160, TRUE, 1),
             Box(Str("1.  introduction"), 72, 620, 160, TRUE, 1),
             Box(Str("2. Results"), 72, 600, 150, TRUE, 1),
             Box(Str("2.1.1 Detail"), 72, 550, 150, TRUE, 1),
             Box(Str("2.1 Part"), 72, 500, 140, TRUE, 1),
             Box(Str("More body text follows here."), 72, 400, 120, FALSE, 1),
             Box(Str("Closing body text is here."), 72, 300, 120, FALSE, 1) >> >>)

\* a first page none of whose fragments is a title candidate
NumberedDoc ==
    Pdf(<< << Box(Str("1. Scope"), 72, 700, 160, TRUE, 1),
             Box(Str("2. Terms"), 72, 600, 160, TRUE, 1),
             Box(Str("3. Usage"), 72, 500, 120, FALSE, 1) >> >>)

\* a first page that consists of its title candidate alone
SingleDoc ==
    Pdf(<< << Box(Str("Quarterly Sales Figures"), 72, 700, 240, FALSE, 1) >> >>)

\* a catalog listing: no title by design
CatalogDoc ==
    Pdf(<< << Box(Str("STEM Pathway Options"), 72, 700, 180, TRUE, 1),
             Box(Str("Take one elective per term."), 72, 600, 120, FALSE, 1),
             Box(Str("See the list below for details."), 72, 500, 120, FALSE, 1) >>,
          << Box(Str("Each term has its own list."), 72, 750, 120, FALSE, 1) >>,
          << Box(Str("stem pathway  options"), 72, 700, 180, TRUE, 1),
             Box(Str("Regular Pathway"), 72, 600, 160, TRUE, 1) >> >>)

\* an invitation flyer with a title
FlyerDoc ==
    Pdf(<< << Box(Str("HOPE TO SEE YOU THERE!"), 72, 700, 240, TRUE, 1),
             Box(Str("www.example.com"), 72, 100, 120, FALSE, 1),
             Box(Str("Bring your friends and family along."), 72, 400, 120, FALSE, 1),
             Box(Str("Hope To See You There!"), 72, 300, 200, TRUE, 1) >> >>)

\* an invitation flyer none of whose fragments scores 4
FlyerNoTitleDoc ==
    Pdf(<< << Box(Str("www.example.com"), 72, 700, 240, TRUE, 1),
             Box(Str("rsvp by friday"), 72, 100, 120, FALSE, 1),
             Box(Str("Snacks"), 72, 90, 120, FALSE, 1) >> >>)

\* a form
FormDoc ==
    Pdf(<< << Box(Str("Application form for grant of LTC advance"), 72, 700, 140, TRUE, 1),
             Box(Str("Name of the Government Servant"), 72, 600, 120, FALSE, 1),
             Box(Str("Signature:"), 72, 100, 120, FALSE, 1) >> >>)

\* a form without a fragment that names it
FormNoTitleDoc ==
    Pdf(<< << Box(Str("Form A"), 72, 700, 140, TRUE, 1),
             Box(Str("Signature of applicant"), 72, 100, 120, FALSE, 1),
             Box(Str("Date of birth"), 72, 90, 120, FALSE, 1) >> >>)

\* a Japanese document
JaDoc ==
    Pdf(<< << Box(<<27010, 35201, 35500, 26126, 25991, 26360>>, 72, 700, 240, FALSE, 1),
             Box(<<31532, 49, 31456, 32, 12399, 12376, 12417, 12395>>, 72, 600, 160, TRUE, 1),
             Box(<<12371, 12428, 12399, 26412, 25991, 12391, 12377>>, 72, 500, 120, FALSE, 1),
             Box(<<12371, 12428, 12399, 26412, 25991, 12391, 12377>>, 72, 400, 120, FALSE, 1),
             Box(<<31532, 20108, 31680, 32, 27010, 35201>>, 72, 300, 140, TRUE, 1),
             Box(<<19968, 46, 32, 38917, 30446>>, 72, 200, 120, TRUE, 1) >> >>)

\* fonts of size 0: the size ratio of the title scoring divides by zero
ZeroSizeDoc ==
    Pdf(<< << Box(Str("Hello World Title"), 72, 700, 0, TRUE, 1),
             Box(Str("Another line here"), 72, 600, 0, FALSE, 1) >> >>)

\* five font sizes, the two most frequent equally frequent
SizesDoc ==
    Pdf(<< << Box(Str("Big Heading One"), 72, 700, 240, FALSE, 1),
             Box(Str("Second Heading Here"), 72, 680, 200, FALSE, 1),
             Box(Str("Small print line"), 72, 650, 100, FALSE, 1),
             Box(Str("Medium Heading Two"), 72, 600, 180, FALSE, 1),
             Box(Str("Body text line one."), 72, 550, 140, FALSE, 1),
             Box(Str("Body text line two."), 72, 500, 120, FALSE, 1),
             Box(Str("Lesser Heading Three"), 72, 450, 160, FALSE, 1),
             Box(Str("Body text line three."), 72, 400, 120, FALSE, 1),
             Box(Str("Body text line four."), 72, 350, 140, FALSE, 1) >> >>)

Corpus ==
    <<EmptyDoc, CorruptDoc, NoFontDoc, ReportDoc, NumberedDoc, SingleDoc, CatalogDoc,
      FlyerDoc, FlyerNoTitleDoc, FormDoc, FormNoTitleDoc, JaDoc, ZeroSizeDoc, SizesDoc>>

FragmentText == Str("Body text")

\* a one-page document with one plain fragment per size, top to bottom
FontDoc(sizes) ==
    Pdf(<< [i \in 1..Len(sizes) |-> Box(FragmentText, 72, 800 - 10 * i, sizes[i], FALSE, 1)] >>)

\* one character per kind the language detector tells apart: a, hiragana a,
\* katakana a, the ideograph U+4E2D, the Hangul syllable U+D55C, Arabic ain, and
\* the voiced sound mark U+309B, which is in the Hiragana block and not a letter
ScriptChars == <<97, 12354, 12450, 20013, 54620, 1593, 12443>>

\* a text with counts[k] times the k-th of these characters, kind after kind
RECURSIVE ScriptText(_, _)
ScriptText(counts, k) ==
    IF k > Len(counts) THEN <<>>
    ELSE [i \in 1..counts[k] |-> ScriptChars[k]] \o ScriptText(counts, k + 1)

\* a one-page document with that text as its only fragment
ScriptDoc(counts) ==
    Pdf(<< << Box(ScriptText(counts, 1), 72, 700, 120, FALSE, 1) >> >>)

\* texts of a fragment that may be a heading
CandidateTexts ==
    <<Str("1. Introduction"), Str("1.1 Background"), Str("1.1.1 Detail"),
      Str("IV. Methods"), Str("A. Scope"), Str("C. Costs"),
      Str("RESULTS SECTION"), Str("Summary of Work"), Str("Open questions:"),
      Str("introduction"), Str("Page 3 of the survey"), Str("7.")>>

\* a one-page English document: three lines of body text at 10 pt, listed first;
\* at the top of the page, `context` plain lines at 20 pt, 18 pt, 16 pt, ...;
\* between them one fragment with the given text, size and weight
CandidateDoc(context, text, size, bold) ==
    Pdf(<< [i \in 1..3 |-> Box(Str("the quick brown fox jumps over it"), 72,
                                320 - 20 * i, 100, FALSE, 1)]
           \o [k \in 1..context |-> Box(Str("Section notes ") \o <<64 + k>>, 72,
                                        800 - 20 * k, 220 - 20 * k, FALSE, 1)]
           \o << Box(CandidateTexts[text], 72, 400, size, bold, 1) >> >>)

\* The files of the input directory: a file of the corpus, named by its place in
\* it, or a generated file, named by the sizes of its fragments, by the number
\* of characters of each script in its text, or by its context lines and its
\* candidate fragment. extract_pages reads the document of the file.
CorpusFile(k) == [kind |-> "corpus", id |-> <<k>>]
FontFile(sizes) == [kind |-> "sizes", id |-> sizes]
ScriptFile(counts) == [kind |-> "scripts", id |-> counts]
CandidateFile(context, text, size, bold) ==
    [kind |-> "candidate", id |-> <<context, text, size, IF bold THEN 1 ELSE 0>>]
extract_pages(pdf_path) ==
    IF pdf_path.kind = "corpus" THEN Corpus[pdf_path.id[1]]
    ELSE IF pdf_path.kind = "scripts" THEN ScriptDoc(pdf_path.id)
    ELSE IF pdf_path.kind = "candidate"
    THEN CandidateDoc(pdf_path.id[1], pdf_path.id[2], pdf_path.id[3], pdf_path.id[4] = 1)
    ELSE FontDoc(pdf_path.id)

----------------------------------------------------------------------------
(* process_all_pdfs *)

MaxBatch == 2

\* the document of the i-th file of the batch
Doc(i) == extract_pages(pdf_files[i])

\* the extractor instance
Self ==
    [text_blocks |-> text_blocks, font_stats |-> font_stats,
     extracted_title |-> extracted_title, detected_language |-> detected_language,
     font_size_hierarchy |-> font_size_hierarchy]

NewExtractor ==
    [text_blocks |-> <<>>, font_stats |-> <<>>, extracted_title |-> <<>>,
     detected_language |-> "en", font_size_hierarchy |-> <<>>]

Absent == [state |-> "absent", content |-> EmptyResult]
Partial == [state |-> "partial", content |-> EmptyResult]
Written(r) == [state |-> "written", content |-> r]

CorpusFiles == {CorpusFile(k) : k \in 1..Len(Corpus)}
Batches == UNION {[1..n -> CorpusFiles] : n \in 0..MaxBatch}

StandaloneIdle == headings = <<>> /\ final_outline = <<>>

Init ==
    /\ pdf_files \in Batches
    /\ idx = 0
    /\ pc = "start"
    /\ text_blocks = NewExtractor.text_blocks
    /\ font_stats = NewExtractor.font_stats
    /\ extracted_title = NewExtractor.extracted_title
    /\ detected_language = NewExtractor.detected_language
    /\ font_size_hierarchy = NewExtractor.font_size_hierarchy
    /\ result = EmptyResult
    /\ outputs = [i \in 1..Len(pdf_files) |-> Absent]
    /\ StandaloneIdle

\* "No PDF files found in input directory"
NoFiles ==
    /\ pc = "start" /\ pdf_files = <<>>
    /\ pc' = "done"
    /\ UNCHANGED <<pdf_files, idx, font_stats, text_blocks, extracted_title,
                   detected_language, font_size_hierarchy, result, outputs,
                   headings, final_outline>>

\* the loop takes the next file and calls extract_outline, which calls
\* analyze_fonts, which clears font_stats and text_blocks
NextFile ==
    /\ pc \in {"start", "loop"} /\ idx < Len(pdf_files)
    /\ idx' = idx + 1
    /\ font_stats' = Cleared(font_stats)
    /\ text_blocks' = Cleared(text_blocks)
    /\ pc' = "first_pass"
    /\ UNCHANGED <<pdf_files, extracted_title, detected_language, font_size_hierarchy,
                   result, outputs, headings, final_outline>>

\* the first pass of analyze_fonts; extract_pages raising ends extract_outline
\* in its except clause
FirstPass ==
    /\ pc = "first_pass"
    /\ IF Doc(idx).corrupt
       THEN /\ result' = EmptyResult
            /\ pc' = "write"
            /\ UNCHANGED detected_language
       ELSE /\ detected_language' =
                   detect_language(Join(DetectionTexts(Elements(Doc(idx).pages, 0))))
            /\ pc' = "second_pass"
            /\ UNCHANGED result
    /\ UNCHANGED <<pdf_files, idx, font_stats, text_blocks, extracted_title,
                   font_size_hierarchy, outputs, headings, final_outline>>

SecondPassStep ==
    /\ pc = "second_pass"
    /\ LET st == SecondPass(Elements(Doc(idx).pages, 0), detected_language,
                            [blocks |-> text_blocks, stats |-> font_stats])
       IN  /\ text_blocks' = st.blocks
           /\ font_stats' = st.stats
    /\ pc' = "outline"
    /\ UNCHANGED <<pdf_files, idx, extracted_title, detected_language,
                   font_size_hierarchy, result, outputs, headings, final_outline>>

\* the rest of extract_outline
Outline ==
    /\ pc = "outline"
    /\ \E o \in {OutlineOf(Self)} :
           /\ result' = o.ret
           /\ extracted_title' = o.self.extracted_title
           /\ font_size_hierarchy' = o.self.font_size_hierarchy
    /\ pc' = "write"
    /\ UNCHANGED <<pdf_files, idx, font_stats, text_blocks, detected_language,
                   outputs, headings, final_outline>>

\* open(output_path, 'w') and json.dump: done, or raising with the file as it
\* was (open raised) or cut short (json.dump raised)
WriteResult ==
    /\ pc = "write"
    /\ \/ /\ outputs' = [outputs EXCEPT ![idx] = Written(result)]
          /\ pc' = "loop"
       \/ /\ \E f \in {outputs[idx], Partial} : outputs' = [outputs EXCEPT ![idx] = f]
          /\ pc' = "handler"
    /\ UNCHANGED <<pdf_files, idx, font_stats, text_blocks, extracted_title,
                   detected_language, font_size_hierarchy, result, headings,
                   final_outline>>

\* the except clause of the loop writes error_result; nothing catches what
\* this write raises
WriteErrorResult ==
    /\ pc = "handler"
    /\ \/ /\ outputs' = [outputs EXCEPT ![idx] = Written(EmptyResult)]
          /\ pc' = "loop"
       \/ /\ \E f \in {outputs[idx], Partial} : outputs' = [outputs EXCEPT ![idx] = f]
          /\ pc' = "aborted"
    /\ UNCHANGED <<pdf_files, idx, font_stats, text_blocks, extracted_title,
                   detected_language, font_size_hierarchy, result, headings,
                   final_outline>>

\* the loop ends
Finish ==
    /\ pc = "loop" /\ idx = Len(pdf_files)
    /\ pc' = "done"
    /\ UNCHANGED <<pdf_files, idx, font_stats, text_blocks, extracted_title,
                   detected_language, font_size_hierarchy, result, outputs,
                   headings, final_outline>>

Next ==
    \/ NoFiles
    \/ NextFile
    \/ FirstPass
    \/ SecondPassStep
    \/ Outline
    \/ WriteResult
    \/ WriteErrorResult
    \/ Finish

Spec == Init /\ [][Next]_vars

----------------------------------------------------------------------------
(* Batches of one generated document, for the font statistics *)

MaxFrags == 5
FontSizes == {100, 120, 140, 160, 180}

\* a file whose document has the font-size table {24: 1, 18: 3, 12: 50}
TableFile == FontFile([i \in 1..54 |-> IF i = 1 THEN 240 ELSE IF i <= 4 THEN 180 ELSE 120])

FontBatches ==
    {<<>>, <<TableFile>>} \cup
    {<<FontFile(s)>> : s \in UNION {[1..n -> FontSizes] : n \in 1..MaxFrags}}

InitFont ==
    /\ pdf_files \in FontBatches
    /\ idx = 0
    /\ pc = "start"
    /\ text_blocks = NewExtractor.text_blocks
    /\ font_stats = NewExtractor.font_stats
    /\ extracted_title = NewExtractor.extracted_title
    /\ detected_language = NewExtractor.detected_language
    /\ font_size_hierarchy = NewExtractor.font_size_hierarchy
    /\ result = EmptyResult
    /\ outputs = [i \in 1..Len(pdf_files) |-> Absent]
    /\ StandaloneIdle

SpecFont == InitFont /\ [][Next]_vars

----------------------------------------------------------------------------
(* Batches of one generated document, for the language detection *)

MaxLatin == 10
MaxScript == 2

ScriptCounts ==
    {<<l>> \o c : l \in 0..MaxLatin, c \in [1..(Len(ScriptChars) - 1) -> 0..MaxScript]}

ScriptBatches == {<<>>} \cup {<<ScriptFile(c)>> : c \in ScriptCounts}

InitScript ==
    /\ pdf_files \in ScriptBatches
    /\ idx = 0
    /\ pc = "start"
    /\ text_blocks = NewExtractor.text_blocks
    /\ font_stats = NewExtractor.font_stats
    /\ extracted_title = NewExtractor.extracted_title
    /\ detected_language = NewExtractor.detected_language
    /\ font_size_hierarchy = NewExtractor.font_size_hierarchy
    /\ result = EmptyResult
    /\ outputs = [i \in 1..Len(pdf_files) |-> Absent]
    /\ StandaloneIdle

SpecScript == InitScript /\ [][Next]_vars

----------------------------------------------------------------------------
(* Batches of one generated document, for the heading validation and levels *)

MaxContext == 3
CandidateSizes == {100, 110, 120, 130, 150}

CandidateBatches ==
    {<<>>} \cup
    {<<CandidateFile(c, t, s, b)>> :
        c \in 0..MaxContext, t \in 1..Len(CandidateTexts), s \in CandidateSizes,
        b \in BOOLEAN}

InitCandidate ==
    /\ pdf_files \in CandidateBatches
    /\ idx = 0
    /\ pc = "start"
    /\ text_blocks = NewExtractor.text_blocks
    /\ font_stats = NewExtractor.font_stats
    /\ extracted_title = NewExtractor.extracted_title
    /\ detected_language = NewExtractor.detected_language
    /\ font_size_hierarchy = NewExtractor.font_size_hierarchy
    /\ result = EmptyResult
    /\ outputs = [i \in 1..Len(pdf_files) |-> Absent]
    /\ StandaloneIdle

SpecCandidate == InitCandidate /\ [][Next]_vars

----------------------------------------------------------------------------
(* enforce_corrected_hierarchy called on its own *)

MaxHeadings == 3
MaxPage == 1
HeadingText == Str("Heading")

\* heading candidates: any page, any raw level in {1, 2, 3}, two positions
HeadingPool ==
    [text : {HeadingText}, page : 0..MaxPage, level : 1..3, position : {-700, -600}]

InitHier ==
    /\ headings \in UNION {[1..n -> HeadingPool] : n \in 0..MaxHeadings}
    /\ final_outline = <<>>
    /\ pc = "enforce"
    /\ pdf_files = <<>>
    /\ idx = 0
    /\ text_blocks = NewExtractor.text_blocks
    /\ font_stats = NewExtractor.font_stats
    /\ extracted_title = NewExtractor.extracted_title
    /\ detected_language = NewExtractor.detected_language
    /\ font_size_hierarchy = NewExtractor.font_size_hierarchy
    /\ result = EmptyResult
    /\ outputs = <<>>

EnforceCall ==
    /\ pc = "enforce"
    /\ final_outline' = enforce_corrected_hierarchy(headings)
    /\ pc' = "enforced"
    /\ UNCHANGED <<pdf_files, idx, font_stats, text_blocks, extracted_title,
                   detected_language, font_size_hierarchy, result, outputs, headings>>

NextHier == EnforceCall

SpecHier == InitHier /\ [][NextHier]_vars

----------------------------------------------------------------------------
(* Properties *)

LevelNum(tag) == IF tag = "H1" THEN 1 ELSE IF tag = "H2" THEN 2 ELSE 3

\* C1: in the outline enforce_corrected_hierarchy returns, which holds every
\* heading it was given, the level of each heading after the first of its page is
\* at most one more than the level of the heading just before it on that page,
\* whatever the raw levels in {1, 2, 3}.
HierarchyStepAtMostOne ==
    pc = "enforced" =>
        /\ Len(final_outline) = Len(headings)
        /\ \A i \in 2..Len(final_outline) :
              final_outline[i].page = final_outline[i - 1].page =>
                  LevelNum(final_outline[i].level)
                      <= LevelNum(final_outline[i - 1].level) + 1

\* a page whose raw levels jump from 1 to 3 has been enforced to H1, H2
DeepJumpClamped ==
    /\ pc = "enforced" /\ Len(headings) = 2
    /\ headings[1].page = headings[2].page
    /\ headings[1].position < headings[2].position
    /\ headings[1].level = 1 /\ headings[2].level = 3
    /\ final_outline[1].level = "H1" /\ final_outline[2].level = "H2"

\* C2: no entry of a returned outline has the returned title as its text, case
\* aside.
TitleNotInOutline ==
    result.title # None =>
        \A i \in 1..Len(result.outline) :
            Lower(result.outline[i].text) # Lower(result.title)

\* a document was processed in which another fragment carries the title text in
\* another case and scores 4 or more as a heading
TitleCopyScoresAsHeading ==
    /\ pc = "write" /\ result.title # None /\ result.title # <<>>
    /\ result.outline # <<>>
    /\ \E k \in 1..Len(text_blocks) :
          /\ Strip(text_blocks[k].text) # result.title
          /\ Lower(Strip(text_blocks[k].text)) = Lower(result.title)
          /\ ~HeadingSkip(Lower(Strip(text_blocks[k].text)))
          /\ HeadingScore(text_blocks[k], BodySize(font_stats), detected_language) >= 4

\* a fragment of the document just analysed passes is_valid_heading; the text it
\* would be listed under
Validates(block) ==
    is_valid_heading(block, BodySize(font_stats), extracted_title, detected_language)
ListedText(block) == CollapseSpaces(Strip(block.text))
\* the places, in the (page, top to bottom) order sorted, of the validated
\* fragments that no validated fragment with the same text precedes
FirstValidated(sorted) ==
    LET validated == {k \in 1..Len(sorted) : Validates(sorted[k])}
    IN  {k \in validated :
            \A j \in validated :
                j < k => Lower(ListedText(sorted[j])) # Lower(ListedText(sorted[k]))}

\* C3: no two entries of a returned outline have the same text, case and runs of
\* white space aside, and each entry is the first, in (page, top to bottom)
\* order, of the validated fragments with its text: it has that fragment's page
\* and spelling.
OutlineTextsDistinct ==
    /\ \A i, j \in 1..Len(result.outline) :
          i # j => Lower(CollapseSpaces(result.outline[i].text))
                       # Lower(CollapseSpaces(result.outline[j].text))
    /\ pc = "write" /\ text_blocks # <<>> =>
          LET sorted == SortedBlocks(text_blocks)
              first == FirstValidated(sorted)
          IN  \A i \in 1..Len(result.outline) :
                  \E k \in first :
                      /\ result.outline[i].text = ListedText(sorted[k])
                      /\ result.outline[i].page = sorted[k].page

\* a heading validated twice, on two pages and in two spellings, is listed once,
\* from the earlier page
RepeatedHeadingListedOnce ==
    /\ pc = "write" /\ text_blocks # <<>>
    /\ LET sorted == SortedBlocks(text_blocks)
       IN  \E j \in FirstValidated(sorted) : \E k \in (j + 1)..Len(sorted) :
               /\ Validates(sorted[k])
               /\ ListedText(sorted[j]) # ListedText(sorted[k])
               /\ Lower(ListedText(sorted[j])) = Lower(ListedText(sorted[k]))
               /\ sorted[j].page < sorted[k].page
               /\ \E i \in 1..Len(result.outline) :
                     /\ result.outline[i].text = ListedText(sorted[j])
                     /\ result.outline[i].page = sorted[j].page

\* the fragments' sizes: how often a size occurs, where it occurs first
Occurrences(size) == Cardinality({k \in 1..Len(text_blocks) : text_blocks[k].size = size})
FirstSeen(size) ==
    CHOOSE k \in 1..Len(text_blocks) :
        text_blocks[k].size = size /\ \A j \in 1..(k - 1) : text_blocks[j].size # size
FragmentSizes == {text_blocks[k].size : k \in 1..Len(text_blocks)}
Analysed == pc \in {"outline", "write", "handler", "loop", "done", "aborted"}

\* C4: the body size is a size no other size occurs more often than, and of the
\* sizes that occur as often it is the one the fragments show first.
BodySizeIsFirstMostFrequent ==
    Analysed /\ font_stats # <<>> =>
        LET body_size == BodySize(font_stats)
        IN  /\ body_size \in FragmentSizes
            /\ \A size \in FragmentSizes :
                  \/ Occurrences(size) < Occurrences(body_size)
                  \/ /\ Occurrences(size) = Occurrences(body_size)
                     /\ FirstSeen(body_size) <= FirstSeen(size)

\* three sizes occur equally often and the body size, seen first, lies between
\* the other two
TieBrokenByFirstSeen ==
    /\ Analysed /\ font_stats # <<>>
    /\ \E small, large \in FragmentSizes :
          /\ small < BodySize(font_stats) /\ BodySize(font_stats) < large
          /\ Occurrences(small) = Occurrences(BodySize(font_stats))
          /\ Occurrences(large) = Occurrences(BodySize(font_stats))

Built == pc \in {"write", "handler", "loop", "done", "aborted"} /\ text_blocks # <<>>

\* C5: after build_font_hierarchy the hierarchy has at most 3 entries, each size
\* in it is above the body size, and the sizes in descending order have the
\* levels 1, 2, 3; with fewer than 3 entries it holds every size above the body
\* size.
HierarchyShape ==
    Built =>
        /\ Len(font_size_hierarchy) <= 3
        /\ \A i \in 1..Len(font_size_hierarchy) :
              /\ font_size_hierarchy[i][1] > BodySize(font_stats)
              /\ font_size_hierarchy[i][1] \in FragmentSizes
              /\ font_size_hierarchy[i][2] = i
              /\ i > 1 => font_size_hierarchy[i][1] < font_size_hierarchy[i - 1][1]
        /\ Len(font_size_hierarchy) < 3 =>
              \A size \in FragmentSizes :
                  size > BodySize(font_stats) => InHierarchy(font_size_hierarchy, size)

\* the table {24: 1, 18: 3, 12: 50} gave body size 12 and the hierarchy {24: 1, 18: 2}
TableScenario ==
    /\ Built
    /\ font_stats = <<<<240, 1>>, <<180, 3>>, <<120, 50>>>>
    /\ BodySize(font_stats) = 120
    /\ font_size_hierarchy = <<<<240, 1>>, <<180, 2>>>>

\* C6: the title extract_outline returns is always a string, the empty string
\* when no title candidate clears its threshold.
TitleIsString == result.title # None

\* C7: when the processing of a document starts, before any of its fragments is
\* analysed, the font statistics, the fragment list, the extracted title, the
\* language tag and the font-size hierarchy are as in a new extractor.
ExtractorResetAtStart == pc = "first_pass" => Self = NewExtractor

\* C8: what extract_outline returns for a document is what a new extractor
\* returns for it, whatever was processed before with the same extractor.
ResultOfDocumentOnly ==
    pc = "write" => result = extract_outline(NewExtractor, Doc(idx)).ret

\* a second document got its outline from an extractor that still held the
\* title of a first, different document
SecondDocumentAfterTitledFirst ==
    /\ pc = "write" /\ idx = 2 /\ pdf_files[1] # pdf_files[2]
    /\ result.outline # <<>>
    /\ extract_outline(NewExtractor, Doc(1)).self.extracted_title # <<>>
    /\ extract_outline(NewExtractor, Doc(1)).self.detected_language # detected_language

\* the containers of the current document, those with font data and a text
Containers == Elements(Doc(idx).pages, 0)
HasFontData(e) ==
    /\ e.el.chars # <<>>
    /\ normalize_text(Strip(e.el.text), detected_language) # <<>>
WithFontData == SelectSeq(Containers, HasFontData)
RECURSIVE TotalCount(_)
TotalCount(stats) == IF stats = <<>> THEN 0 ELSE stats[1][2] + TotalCount(Tail(stats))
\* container e has no font data, and its text is the text of none of the
\* containers kept
OnlyFontless(e, kept) ==
    /\ e.el.chars = <<>>
    /\ \A k \in 1..Len(kept) :
          CollapseSpaces(Strip(kept[k].el.text)) # CollapseSpaces(Strip(e.el.text))

\* C9: a fragment without font data is in neither the fragment list nor the font
\* statistics and becomes neither title nor outline entry, and a readable
\* document none of whose fragments survives yields an empty title and an empty
\* outline.
FontlessFragmentsSkipped ==
    /\ pc = "outline" =>
          LET kept == WithFontData
          IN  /\ Len(text_blocks) = Len(kept)
              /\ \A k \in 1..Len(text_blocks) :
                    /\ text_blocks[k].page = kept[k].page
                    /\ text_blocks[k].y = kept[k].el.y
                    /\ text_blocks[k].size = kept[k].el.chars[1].size
              /\ TotalCount(font_stats) = Len(text_blocks)
    /\ pc = "write" /\ ~Doc(idx).corrupt =>
          LET els == Containers
              kept == SelectSeq(els, HasFontData)
          IN  /\ \A k \in 1..Len(els) :
                    OnlyFontless(els[k], kept) /\ Strip(els[k].el.text) # <<>> =>
                        /\ result.title # Strip(els[k].el.text)
                        /\ \A i \in 1..Len(result.outline) :
                              result.outline[i].text # CollapseSpaces(Strip(els[k].el.text))
              /\ kept = <<>> => result = EmptyResult

\* a document with fragments, none of them with font data, gave the empty result
\* in an extractor that still held the title of the document before it
FontlessDocumentGaveEmptyResult ==
    /\ pc = "write" /\ ~Doc(idx).corrupt
    /\ Containers # <<>> /\ WithFontData = <<>>
    /\ extracted_title # <<>>
    /\ result = EmptyResult

\* C10: the batch never aborts, and once it is done every document has its
\* output file.
BatchNeverAborts ==
    /\ pc # "aborted"
    /\ pc = "done" => \A i \in 1..Len(pdf_files) : outputs[i].state = "written"

\* the number of characters of each kind in the text of the generated document
\* being processed
ScriptCountsOfDoc == pdf_files[idx].id
KanaShare(n) == n[2] + n[3] + n[7]
LetterTotal(n) == n[1] + n[2] + n[3] + n[4] + n[5] + n[6]

\* C15: detect_language returns the first tag in the order ja, ko, zh, ar whose
\* share of the alphabetic characters is above its threshold: "en" if there is
\* no alphabetic character; else "ja" if the kana are more than 10% of them;
\* else "ko" if the Hangul are more than 20%; else "zh" if kana and ideographs
\* together are more than 30%; else "ar" if the Arabic-block characters are
\* more than 20%; else "en".
DetectedTagIsFirstMatch ==
    (pc = "second_pass" /\ pdf_files[idx].kind = "scripts") =>
        LET n == ScriptCountsOfDoc
            total == LetterTotal(n)
        IN  detected_language =
                IF total = 0 THEN "en"
                ELSE IF 100 * KanaShare(n) > 10 * total THEN "ja"
                ELSE IF 100 * n[5] > 20 * total THEN "ko"
                ELSE IF 100 * (KanaShare(n) + n[4]) > 30 * total THEN "zh"
                ELSE IF 100 * n[6] > 20 * total THEN "ar"
                ELSE "en"

\* a text over both the kana and the Hangul threshold was tagged
KanaAndHangulTaggedJa ==
    /\ pc = "second_pass" /\ pdf_files[idx].kind = "scripts"
    /\ 100 * KanaShare(ScriptCountsOfDoc) > 10 * LetterTotal(ScriptCountsOfDoc)
    /\ 100 * ScriptCountsOfDoc[5] > 20 * LetterTotal(ScriptCountsOfDoc)
    /\ detected_language = "ja"

\* the i-th heading given to enforce_corrected_hierarchy comes before the j-th
\* one on their page: higher up, or as high and given first
Above(i, j) ==
    /\ headings[i].page = headings[j].page
    /\ \/ headings[i].position < headings[j].position
       \/ headings[i].position = headings[j].position /\ i < j
\* the place of the i-th heading in the returned outline: after the headings of
\* the pages before its page and those above it on its page
PlaceOf(i) ==
    1 + Cardinality({j \in 1..Len(headings) : headings[j].page < headings[i].page})
      + Cardinality({j \in 1..Len(headings) : Above(j, i)})
FinalOf(i) == LevelNum(final_outline[PlaceOf(i)].level)
FirstOnPage(i) == \A j \in 1..Len(headings) : ~Above(j, i)

\* C16: on every page on its own, top to bottom: the first heading keeps its raw
\* level; a later heading whose raw level is at most one more than the final
\* level of the heading above it keeps its raw level, and any other later
\* heading gets that final level plus one, at most 3; so no final level is
\* deeper than the raw level.
PageWalkRestartsAndClamps ==
    pc = "enforced" =>
        \A i \in 1..Len(headings) :
            /\ final_outline[PlaceOf(i)].page = headings[i].page
            /\ FinalOf(i) <= headings[i].level
            /\ IF FirstOnPage(i) THEN FinalOf(i) = headings[i].level
               ELSE LET current_level == LevelNum(final_outline[PlaceOf(i) - 1].level)
                    IN  IF headings[i].level <= current_level + 1
                        THEN FinalOf(i) = headings[i].level
                        ELSE FinalOf(i) = IF current_level + 1 < 3 THEN current_level + 1 ELSE 3

\* a page with raw levels 1, 3, 2 from top to bottom came out as 1, 2, 2
OneThreeTwoEnforced ==
    /\ pc = "enforced"
    /\ \E i, j, k \in 1..Len(headings) :
          /\ Above(i, j) /\ Above(j, k)
          /\ <<headings[i].level, headings[j].level, headings[k].level>> = <<1, 3, 2>>
          /\ <<FinalOf(i), FinalOf(j), FinalOf(k)>> = <<1, 2, 2>>

\* the fragments of the first page of the document just analysed, the title
\* score of each and the ones that are not excluded and reach the minimum score
FirstPageBlocks == {i \in 1..Len(text_blocks) : text_blocks[i].page = 0}
TitleScore(i) ==
    FormalScore(text_blocks[i],
                MaxOf({text_blocks[j].y : j \in FirstPageBlocks}),
                MaxOf({text_blocks[j].size : j \in FirstPageBlocks}))
TitleCandidates ==
    {i \in FirstPageBlocks : ~FormalSkip(Strip(text_blocks[i].text)) /\ TitleScore(i) >= 6}
BestCandidates ==
    {i \in TitleCandidates :
        \A j \in TitleCandidates :
            \/ TitleScore(j) < TitleScore(i)
            \/ TitleScore(j) = TitleScore(i) /\ text_blocks[j].size <= text_blocks[i].size}
\* the standard or formal strategy ran on the document and nothing raised
StandardStrategyRan ==
    /\ pc = "write" /\ text_blocks # <<>>
    /\ DocumentType(Join([i \in 1..Len(text_blocks) |-> Lower(text_blocks[i].text)]))
           \in {"standard", "formal_document"}
    /\ \A i \in 1..Len(text_blocks) : text_blocks[i].size > 0

\* C14: under the standard or formal strategy, whenever a first-page fragment
\* that is not excluded reaches the title score 6, the title returned is the
\* text of a candidate with the highest score and, among those, the largest
\* font size - on every first page, also one that is that single fragment.
TitleIsBestCandidate ==
    (StandardStrategyRan /\ TitleCandidates # {}) =>
        \E i \in BestCandidates : result.title = Strip(text_blocks[i].text)

\* the raw level of a fragment of the document just analysed
RawLevelOf(block) ==
    determine_heading_level_corrected(block, ListedText(block), detected_language,
                                      font_size_hierarchy, font_stats)

\* the text is a numbering of the given depth, a blank and more text: "N. ",
\* "N.N " or "N.N.N " with numbers in ASCII digits
NumberedForm(t, depth) ==
    \E sp \in 2..(Len(t) - 1) :
        LET marker == SubSeq(t, 1, sp - 1)
            dots == {i \in 1..Len(marker) : marker[i] = 46}
        IN  /\ t[sp] = 32 /\ \A i \in 1..Len(marker) : marker[i] \in (48..57) \cup {46}
            /\ 1 \notin dots /\ \A i \in dots : i + 1 \notin dots
            /\ IF depth = 1 THEN dots = {Len(marker)}
               ELSE Cardinality(dots) = depth - 1 /\ Len(marker) \notin dots

\* C11: in a document tagged en, a validated heading "N. Text" has raw level 1,
\* "N.N Text" raw level 2 and "N.N.N Text" raw level 3, whatever its font size,
\* its weight and the font-size hierarchy.
NumberedHeadingLevels ==
    (Built /\ detected_language = "en") =>
        \A i \in 1..Len(text_blocks) : \A depth \in 1..3 :
            (Validates(text_blocks[i]) /\ NumberedForm(ListedText(text_blocks[i]), depth))
                => RawLevelOf(text_blocks[i]) = depth

\* a validated "N.N.N Text" got raw level 3 although the hierarchy has another
\* level for its font size
ThirdDepthAgainstHierarchy ==
    /\ Built /\ detected_language = "en"
    /\ \E i \in 1..Len(text_blocks) :
          /\ Validates(text_blocks[i])
          /\ NumberedForm(ListedText(text_blocks[i]), 3)
          /\ InHierarchy(font_size_hierarchy, text_blocks[i].size)
          /\ HierarchyLevel(font_size_hierarchy, text_blocks[i].size) < 3
          /\ RawLevelOf(text_blocks[i]) = 3

\* the text begins with one capital letter, an optional dot and a blank
LetterMarker(t) ==
    /\ At(t, 1) \in 65..90
    /\ At(t, 2) = 32 \/ (At(t, 2) = 46 /\ At(t, 3) = 32)
\* the text begins with several of the letters IVXLCDM, an optional dot and a blank
RomanMarker(t) ==
    \E n \in 2..Len(t) :
        /\ \A i \in 1..n : t[i] \in {73, 86, 88, 76, 67, 68, 77}
        /\ At(t, n + 1) = 32 \/ (At(t, n + 1) = 46 /\ At(t, n + 2) = 32)

\* C12: in a document tagged en, a validated heading that begins with a
\* roman-numeral marker has raw level 1, and one that begins with a
\* single-capital-letter marker, whatever the letter, has raw level 2.
MarkerHeadingLevels ==
    (Built /\ detected_language = "en") =>
        \A i \in 1..Len(text_blocks) :
            Validates(text_blocks[i]) =>
                /\ RomanMarker(ListedText(text_blocks[i])) => RawLevelOf(text_blocks[i]) = 1
                /\ LetterMarker(ListedText(text_blocks[i])) => RawLevelOf(text_blocks[i]) = 2

\* the fragment is not the title, is within the length band of the script and
\* matches no skip pattern
PassesFilters(block) ==
    LET text == Strip(block.text)
    IN  /\ Lower(text) # extracted_title
        /\ IF detected_language \in {"ja", "zh", "ko"}
           THEN 2 <= Len(text) /\ Len(text) <= 200
           ELSE 3 <= Len(text) /\ Len(text) <= 150
        /\ ~HeadingSkip(Lower(text))

\* the points of a fragment: the rows of the score table whose condition it meets
ScoreTable(block) ==
    LET text == Strip(block.text)
        body_size == BodySize(font_stats)
        cjk == detected_language \in {"ja", "zh", "ko"}
        count == IF cjk THEN Len(text) ELSE WordCount(text)
        ratio_points ==
            IF RatioGE(block.size, body_size, 15, 10) THEN 4
            ELSE IF RatioGE(block.size, body_size, 13, 10) THEN 3
            ELSE IF RatioGE(block.size, body_size, 12, 10) THEN 2
            ELSE IF RatioGE(block.size, body_size, 11, 10) THEN 1 ELSE 0
        bold_points == IF block.is_bold THEN 2 ELSE 0
        pattern_points ==
            IF is_structural_heading_pattern(text, detected_language) THEN 3 ELSE 0
        shape_points ==
            IF IsUpperStr(block.text) /\ count >= 2 THEN 2
            ELSE IF IsTitleCase(text) /\ count >= 2 THEN 1
            ELSE IF text[Len(text)] = 58 /\ Len(text) > 5 THEN 1 ELSE 0
        band_points ==
            IF (cjk /\ count \in 3..30) \/ (~cjk /\ count \in 2..15) THEN 1 ELSE 0
    IN  ratio_points + bold_points + pattern_points + shape_points + band_points

\* C13: where the body size is positive, a fragment that is not the title, is
\* within the length band and matches no skip pattern is accepted by
\* is_valid_heading exactly if its points add up to at least 4: 4, 3, 2 or 1 for
\* a ratio of its size to the body size of at least 1.5, 1.3, 1.2 or 1.1; 2 for
\* bold; 3 for a structural pattern; 2 for all capitals with two words or more,
\* else 1 for title case with two words or more, else 1 for a final colon on a
\* text longer than 5; 1 for a word or character count within the band.
AcceptedIffScoreFour ==
    (Built /\ BodySize(font_stats) > 0) =>
        \A i \in 1..Len(text_blocks) :
            PassesFilters(text_blocks[i]) =>
                (Validates(text_blocks[i]) <=> ScoreTable(text_blocks[i]) >= 4)

\* a fragment was accepted with exactly 4 points, one of them for its final
\* colon, and none for weight or pattern
ColonHeadingAcceptedAtFour ==
    /\ Built /\ BodySize(font_stats) > 0
    /\ \E i \in 1..Len(text_blocks) :
          /\ PassesFilters(text_blocks[i])
          /\ ScoreTable(text_blocks[i]) = 4
          /\ ~text_blocks[i].is_bold
          /\ text_blocks[i].text[Len(text_blocks[i].text)] = 58
          /\ Validates(text_blocks[i])

\* a validated fragment whose text matches neither a structural pattern nor a
\* level pattern
PlainHeading(block) ==
    /\ Validates(block)
    /\ ~is_structural_heading_pattern(Strip(block.text), detected_language)
    /\ PatternLevel(ListedText(block), detected_language) = 0

\* C17: among the validated headings of one document that match no structural
\* pattern, a heading with a strictly larger font size never has a deeper raw
\* level than a heading with a smaller font size.
RawLevelMonotoneInSize ==
    Built =>
        \A i, j \in 1..Len(text_blocks) :
            (/\ PlainHeading(text_blocks[i]) /\ PlainHeading(text_blocks[j])
             /\ text_blocks[i].size > text_blocks[j].size)
                => RawLevelOf(text_blocks[i]) <= RawLevelOf(text_blocks[j])

============================================================================
